---- MODULE Spec2Model ----
(***************************************************************************)
(* SteadyTimer (src/BoostTimer/BoostTimer.h): a stopwatch plus a deadline  *)
(* timer (boost::asio::steady_timer) driven by an io_context that the      *)
(* calling thread runs inside AsyncWait.                                   *)
(*                                                                         *)
(* Time is the steady clock's tick count in nanoseconds.  The thread that  *)
(* owns the timer ("owner") issues every operation; a second thread        *)
(* ("other") may call Cancel / CancelOne at any moment, also while the     *)
(* owner is blocked inside Wait or AsyncWait.                              *)
(***************************************************************************)
EXTENDS Integers, Sequences, FiniteSets, TLC

(* std::chrono period ratios used by duration_cast and by milliseconds(n). *)
NsPerMs == 1000000
NsPerSec == 1000000000

(* Bounds of the exploration. *)
MaxNowMs == 2
MaxDur == 1
MaxCalls == 2
MaxFileTime == 1
MaxTeardowns == 2

Threads == {"owner", "other"}
Durations == (-1)..MaxDur
FileTimes == 0..MaxFileTime
MaxNow == MaxNowMs * NsPerMs

(* Instants the clock visits in the timer specification ...               *)
Instants == {k * NsPerMs : k \in 0..MaxNowMs} \cup {NsPerMs - 1}
(* ... and in the stopwatch specification (unit boundaries, +-1 ns).       *)
FineInstants ==
    {0, 1, NsPerMs - 1, NsPerMs, NsPerMs + 1, 2 * NsPerMs - 1,
     NsPerSec - 1, NsPerSec, NsPerSec + NsPerMs - 1,
     2 * NsPerSec - 1, 2 * NsPerSec} \cup {MaxNow}

VARIABLES
    now,         \* std::chrono::steady_clock::now(), in ns
    _startTime,  \* SteadyTimer::_startTime
    _stopTime,   \* SteadyTimer::_stopTime
    expiry,      \* expiry of *_timer
    timerQueue,  \* waits registered on *_timer and not yet completed
    readyQueue,  \* completions queued on *_ioContext, each with its error code
    stopped,     \* *_ioContext is in the stopped state
    pc,          \* where the owner thread is
    calls,       \* number of AsyncWait calls begun; the current call's id
    fired,       \* ids of the calls whose handler was invoked, in order
    hit,         \* ids of the calls whose wait was cancelled
    early,       \* a cancel was invoked in this call, armed, deadline ahead
    regEarly,    \* the same, and the wait was registered already
    preCancel,   \* what the owner's Cancel() just before this call returned
    armed,       \* instant and duration of the ExpiresFromNow before a Wait
    t0,          \* instant of the last Start()
    t1,          \* instant of the last Stop()
    ret,         \* the operation that just returned, and its value
    _timer,      \* SteadyTimer::_timer: "alive" or "null"
    _ioContext,  \* SteadyTimer::_ioContext: "alive" or "null"
    released,    \* the objects deleted so far, in order
    teardowns,   \* number of runs of the destructor / finalizer begun
    once         \* the one cancel another thread issued during a call

watch == <<_startTime, _stopTime, t0, t1>>
timer == <<expiry, timerQueue, readyQueue, stopped>>
hist == <<calls, fired, hit>>
life == <<_timer, _ioContext, released, teardowns>>
vars == <<now, _startTime, _stopTime, expiry, timerQueue, readyQueue, stopped,
          pc, calls, fired, hit, early, regEarly, preCancel, armed, t0, t1, ret,
          _timer, _ioContext, released, teardowns, once>>

NoRet == [op |-> "none", by |-> "none", val |-> 0, pend |-> 0]
NoArm == [at |-> -1, d |-> 0]
NoOnce == [call |-> 0, val |-> 0, at |-> "none", due |-> FALSE]
Returned(o, t, v, p) == [op |-> o, by |-> t, val |-> v, pend |-> p]

Range(s) == {s[i] : i \in 1..Len(s)}
Ids(s) == {s[i].id : i \in 1..Len(s)}
Count(s, x) == Cardinality({i \in 1..Len(s) : s[i] = x})

(***************************************************************************)
(* Library primitives, as used at the lines of the wrapper that call them. *)
(***************************************************************************)

(* Variant: a cast that rounds to the nearest unit. *)
RoundedQuotient(d, period) ==
    (d \div period) + (IF (d % period) >= period - (d % period) THEN 1 ELSE 0)
DurationCastRounds(d, period) ==
    IF d >= 0 THEN RoundedQuotient(d, period) ELSE -RoundedQuotient(-d, period)

(* duration_cast<To>(d): integer division truncating toward zero. *)
DurationCast(d, period) ==
    IF d >= 0 THEN d \div period ELSE -((-d) \div period)

(* steady_clock::now() *)
SteadyClockNow == now

(* Variant: the count of milliseconds taken as a count of clock ticks. *)
ExpiryAfterTicks(t, ms) == t + ms

(* std::chrono::milliseconds(n) added to now(): expires_after / expires_from_now *)
ExpiryAfter(t, ms) == t + ms * NsPerMs

(* system_clock::from_time_t((time_t) time->ToFileTime()): the tick count of *)
(* the DateTime's file time is taken as a number of seconds.                *)
FromTimeT(ft) == ft * NsPerSec

(* Completions of the waits q, all with error code ec. *)
Complete(q, ec) == [i \in 1..Len(q) |-> [id |-> q[i], ec |-> ec]]

(* Variant: a cancel that completes the waits without an error code. *)
TimerCancelCompletesOk(q) ==
    [n |-> Len(q), queue |-> <<>>, done |-> Complete(q, "ok")]

(* steady_timer::cancel(): every registered wait completes with            *)
(* operation_aborted; the count of them is returned.                       *)
TimerCancel(q) ==
    [n |-> Len(q), queue |-> <<>>, done |-> Complete(q, "aborted")]

(* Variant: setting the expiry leaves the registered waits in place. *)
TimerExpiresKeepsWaits(q) == [n |-> 0, queue |-> q, done |-> <<>>]

(* steady_timer::expires_at / expires_from_now / expires_after: setting the *)
(* expiry cancels the registered waits, as cancel() does.                   *)
TimerExpires(q) == TimerCancel(q)

(* Variant: the cancelled wait is dropped, its completion never queued. *)
TimerCancelOneDrops(q) ==
    IF q = <<>>
    THEN [n |-> 0, queue |-> q, done |-> <<>>]
    ELSE [n |-> 1, queue |-> Tail(q), done |-> <<>>]

(* steady_timer::cancel_one(): the oldest registered wait only. *)
TimerCancelOne(q) ==
    IF q = <<>>
    THEN [n |-> 0, queue |-> q, done |-> <<>>]
    ELSE [n |-> 1, queue |-> Tail(q), done |-> Complete(<<Head(q)>>, "aborted")]

(* steady_timer::async_wait(h): one more wait registered on the timer. *)
TimerAsyncWait(q, id) == Append(q, id)

(* Variants: a lambda without the test of ec, and one with it inverted. *)
CompletionInvokesAlways(ec) == TRUE
CompletionInvokesOnError(ec) == ec # "ok"

(* The completion lambda of AsyncWait: if (!ec) handler(); *)
CompletionInvokes(ec) == ec = "ok"

(* Variant: a wait() that never blocks. *)
WaitBlocksNever(t, exp) == FALSE

(* steady_timer::wait() keeps blocking while now < expiry. *)
WaitBlocks(t, exp) == t < exp

(* Variants: a run() that does not count registered waits as work, and an *)
(* AsyncWait without the reset().                                          *)
RunOutOfWorkIgnoresTimers(q, r) == r = <<>>
IoContextResetOmitted(s) == s

(* Variant: a run() that never finds itself out of work. *)
RunOutOfWorkNever(q, r) == FALSE

(* io_context::run() returns once stopped or out of work, and leaves the   *)
(* context stopped; io_context::reset() clears that.                       *)
RunOutOfWork(q, r) == q = <<>> /\ r = <<>>
IoContextReset(s) == FALSE

(***************************************************************************)
(* Stopwatch queries.                                                      *)
(***************************************************************************)
ElapsedSeconds(start, stop) == DurationCast(stop - start, NsPerSec)
ElapsedMilliseconds(start, stop) == DurationCast(stop - start, NsPerMs)
ElapsedNanoseconds(start, stop) == DurationCast(stop - start, 1)

(***************************************************************************)
(* Initial state: the object right after its constructor.                  *)
(***************************************************************************)
Init ==
    /\ now = 0
    /\ _startTime = 0
    /\ _stopTime = 0
    /\ expiry = 0
    /\ timerQueue = <<>>
    /\ readyQueue = <<>>
    /\ stopped = FALSE
    /\ pc = "idle"
    /\ calls = 0
    /\ fired = <<>>
    /\ hit = {}
    /\ early = FALSE
    /\ regEarly = FALSE
    /\ preCancel = -1
    /\ armed = NoArm
    /\ t0 = -1
    /\ t1 = -1
    /\ ret = NoRet
    /\ _timer = "alive"
    /\ _ioContext = "alive"
    /\ released = <<>>
    /\ teardowns = 0
    /\ once = NoOnce

(* The native objects behind the two pointers still exist. *)
TimerAlive == _timer = "alive"
ContextAlive == _ioContext = "alive"

(* The owner is between operations, or inside the handler it was handed. *)
AtCallSite == pc \in {"idle", "aw_handler"}
(* The current AsyncWait is armed and its handler has not run. *)
InCall == pc \in {"aw_armed", "aw_run"} /\ calls \notin Range(fired)
(* Bookkeeping that lasts for one AsyncWait call. *)
PerCall(x, dflt) == IF pc = "idle" THEN dflt ELSE x

TickTo(S) ==
    /\ \E t \in S : t > now /\ now' = t
    /\ ret' = NoRet
    /\ early' = PerCall(early, FALSE)
    /\ regEarly' = PerCall(regEarly, FALSE)
    /\ preCancel' = PerCall(preCancel, -1)
    /\ UNCHANGED <<life, once, watch, timer, pc, hist, armed>>

Tick == TickTo(Instants)
TickFine == TickTo(FineInstants)

(***************************************************************************)
(* Stopwatch operations.                                                   *)
(***************************************************************************)
Start ==
    /\ AtCallSite
    /\ _startTime' = SteadyClockNow
    /\ t0' = now
    /\ ret' = Returned("Start", "owner", 0, 0)
    /\ armed' = NoArm
    /\ early' = PerCall(early, FALSE)
    /\ regEarly' = PerCall(regEarly, FALSE)
    /\ preCancel' = PerCall(preCancel, -1)
    /\ UNCHANGED <<life, once, now, _stopTime, t1, timer, pc, hist>>

Stop ==
    /\ AtCallSite
    /\ _stopTime' = SteadyClockNow
    /\ t1' = now
    /\ ret' = Returned("Stop", "owner", 0, 0)
    /\ armed' = NoArm
    /\ early' = PerCall(early, FALSE)
    /\ regEarly' = PerCall(regEarly, FALSE)
    /\ preCancel' = PerCall(preCancel, -1)
    /\ UNCHANGED <<life, once, now, _startTime, t0, timer, pc, hist>>

(* Variant: a query that restarts the stopwatch. *)
QueryRestarts(name, value) ==
    /\ AtCallSite
    /\ ret' = Returned(name, "owner", value, 0)
    /\ _startTime' = SteadyClockNow
    /\ armed' = NoArm
    /\ early' = PerCall(early, FALSE)
    /\ regEarly' = PerCall(regEarly, FALSE)
    /\ preCancel' = PerCall(preCancel, -1)
    /\ UNCHANGED <<life, once, now, _stopTime, t0, t1, timer, pc, hist>>

(* A query: nothing but the returned value is produced. *)
Query(name, value) ==
    /\ AtCallSite
    /\ ret' = Returned(name, "owner", value, 0)
    /\ armed' = NoArm
    /\ early' = PerCall(early, FALSE)
    /\ regEarly' = PerCall(regEarly, FALSE)
    /\ preCancel' = PerCall(preCancel, -1)
    /\ UNCHANGED <<life, once, now, watch, timer, pc, hist>>

GetElapsedSeconds ==
    Query("GetElapsedSeconds", ElapsedSeconds(_startTime, _stopTime))

GetElapsedMilliseconds ==
    Query("GetElapsedMilliseconds", ElapsedMilliseconds(_startTime, _stopTime))

GetElapsedNanoseconds ==
    Query("GetElapsedNanoseconds", ElapsedNanoseconds(_startTime, _stopTime))

(***************************************************************************)
(* Deadline scheduling.  Setting the expiry cancels the registered waits.  *)
(***************************************************************************)
SetExpiryBy(who, name, t, isRelative, ms) ==
    LET c == TimerExpires(timerQueue) IN
    /\ who = "owner" => AtCallSite
    /\ TimerAlive
    /\ expiry' = t
    /\ timerQueue' = c.queue
    /\ readyQueue' = readyQueue \o c.done
    /\ hit' = hit \cup Ids(c.done)
    /\ ret' = Returned(name, who, 0, Len(timerQueue))
    /\ armed' = IF isRelative /\ (pc = "idle" \/ who = "other")
                THEN [at |-> now, d |-> ms] ELSE NoArm
    /\ early' = PerCall(early, FALSE)
    /\ regEarly' = PerCall(regEarly, FALSE)
    /\ preCancel' = PerCall(preCancel, -1)
    /\ UNCHANGED <<life, once, now, watch, stopped, pc, calls, fired>>

SetExpiry(name, t, isRelative, ms) == SetExpiryBy("owner", name, t, isRelative, ms)

ExpiresAt(ft) == SetExpiry("ExpiresAt", FromTimeT(ft), FALSE, 0)

ExpiresFromNow(ms) ==
    /\ ExpiryAfter(now, ms) <= MaxNow
    /\ SetExpiry("ExpiresFromNow", ExpiryAfter(SteadyClockNow, ms), TRUE, ms)

(* ExpiresFromNow called by another thread. *)
ExpiresFromNowOther(ms) ==
    /\ ExpiryAfter(now, ms) <= MaxNow
    /\ SetExpiryBy("other", "ExpiresFromNow", ExpiryAfter(SteadyClockNow, ms), TRUE, ms)

(* Wait(): _timer->wait() blocks the owner until the expiry is reached. *)
WaitBegin ==
    /\ pc = "idle"
    /\ TimerAlive
    /\ pc' = "wait"
    /\ ret' = NoRet
    /\ early' = FALSE
    /\ regEarly' = FALSE
    /\ preCancel' = -1
    /\ UNCHANGED <<life, once, now, watch, timer, hist, armed>>

WaitReturn ==
    /\ pc = "wait"
    /\ ~WaitBlocks(now, expiry)
    /\ pc' = "idle"
    /\ ret' = Returned("Wait", "owner", 0, Len(timerQueue))
    /\ UNCHANGED <<life, once, now, watch, timer, hist, armed, early, regEarly, preCancel>>

(***************************************************************************)
(* Cancellation, from either thread.                                       *)
(***************************************************************************)
(* Variant: a cancel that also moves the expiry to the present instant. *)
CancelWithDisarms(name, t, c) ==
    /\ t = "owner" => AtCallSite
    /\ TimerAlive
    /\ expiry' = now
    /\ timerQueue' = c.queue
    /\ readyQueue' = readyQueue \o c.done
    /\ hit' = hit \cup Ids(c.done)
    /\ ret' = Returned(name, t, c.n, Len(timerQueue))
    /\ early' = PerCall(early \/ (InCall /\ now < expiry), FALSE)
    /\ regEarly' = PerCall(regEarly \/ (InCall /\ pc = "aw_run" /\ now < expiry), FALSE)
    /\ preCancel' = PerCall(preCancel, -1)
    /\ armed' = IF t = "owner" THEN NoArm ELSE armed
    /\ UNCHANGED <<life, once, now, watch, stopped, pc, calls, fired>>

CancelBody(name, t, c) ==
    /\ t = "owner" => AtCallSite
    /\ TimerAlive
    /\ timerQueue' = c.queue
    /\ readyQueue' = readyQueue \o c.done
    /\ hit' = hit \cup Ids(c.done)
    /\ ret' = Returned(name, t, c.n, Len(timerQueue))
    /\ early' = PerCall(early \/ (InCall /\ now < expiry), FALSE)
    /\ regEarly' = PerCall(regEarly \/ (InCall /\ pc = "aw_run" /\ now < expiry), FALSE)
    /\ preCancel' = PerCall(preCancel, -1)
    /\ armed' = IF t = "owner" THEN NoArm ELSE armed
    /\ UNCHANGED <<life, now, watch, expiry, stopped, pc, calls, fired>>

CancelWith(name, t, c) ==
    /\ CancelBody(name, t, c)
    /\ UNCHANGED once

(* A cancel by the other thread, the only one during the owner's current   *)
(* AsyncWait call; what it returned and where it found the owner is kept.  *)
CancelOnceWith(name, c) ==
    /\ pc \in {"aw_armed", "aw_run", "aw_handler", "aw_reset"}
    /\ once.call # calls
    /\ CancelBody(name, "other", c)
    /\ once' = [call |-> calls, val |-> c.n, at |-> pc, due |-> ~WaitBlocks(now, expiry)]

CancelOnce == CancelOnceWith("Cancel", TimerCancel(timerQueue))

CancelOneOnce == CancelOnceWith("CancelOne", TimerCancelOne(timerQueue))

Cancel(t) == CancelWith("Cancel", t, TimerCancel(timerQueue))

CancelOne(t) == CancelWith("CancelOne", t, TimerCancelOne(timerQueue))

(***************************************************************************)
(* AsyncWait(milliseconds, handler), statement by statement.               *)
(***************************************************************************)
(* _timer->expires_after(milliseconds) *)
AsyncWaitArm(ms) ==
    LET c == TimerExpires(timerQueue) IN
    /\ pc = "idle"
    /\ TimerAlive
    /\ calls < MaxCalls
    /\ ExpiryAfter(now, ms) <= MaxNow
    /\ expiry' = ExpiryAfter(SteadyClockNow, ms)
    /\ timerQueue' = c.queue
    /\ readyQueue' = readyQueue \o c.done
    /\ hit' = hit \cup Ids(c.done)
    /\ calls' = calls + 1
    /\ pc' = "aw_armed"
    /\ preCancel' = IF ret.op = "Cancel" /\ ret.by = "owner" THEN ret.val ELSE -1
    /\ early' = FALSE
    /\ regEarly' = FALSE
    /\ armed' = NoArm
    /\ ret' = NoRet
    /\ UNCHANGED <<life, once, now, watch, stopped, fired>>

(* _timer->async_wait(lambda) *)
AsyncWaitRegister ==
    /\ pc = "aw_armed"
    /\ timerQueue' = TimerAsyncWait(timerQueue, calls)
    /\ pc' = "aw_run"
    /\ ret' = NoRet
    /\ UNCHANGED <<life, once, now, watch, expiry, readyQueue, stopped, hist,
                   early, regEarly, preCancel, armed>>

(* _ioContext->run(): the expiry is reached, the waits become ready ... *)
RunPoll ==
    /\ pc = "aw_run"
    /\ ~stopped
    /\ timerQueue # <<>>
    /\ ~WaitBlocks(now, expiry)
    /\ readyQueue' = readyQueue \o Complete(timerQueue, "ok")
    /\ timerQueue' = <<>>
    /\ ret' = NoRet
    /\ UNCHANGED <<life, once, now, watch, expiry, stopped, pc, hist,
                   early, regEarly, preCancel, armed>>

(* ... a ready completion is executed: the lambda runs, and calls the      *)
(* handler unless the wait was cancelled ...                               *)
RunDispatch ==
    /\ pc = "aw_run"
    /\ ~stopped
    /\ readyQueue # <<>>
    /\ readyQueue' = Tail(readyQueue)
    /\ IF CompletionInvokes(Head(readyQueue).ec)
       THEN fired' = Append(fired, Head(readyQueue).id) /\ pc' = "aw_handler"
       ELSE UNCHANGED <<fired, pc>>
    /\ ret' = NoRet
    /\ UNCHANGED <<life, once, now, watch, expiry, timerQueue, stopped, calls, hit,
                   early, regEarly, preCancel, armed>>

(* ... the handler returns into the lambda and into run() ...              *)
HandlerReturn ==
    /\ pc = "aw_handler"
    /\ pc' = "aw_run"
    /\ ret' = NoRet
    /\ UNCHANGED <<life, once, now, watch, timer, hist, early, regEarly, preCancel, armed>>

(* ... and run() returns when the context is stopped or out of work.       *)
RunReturn ==
    /\ pc = "aw_run"
    /\ stopped \/ RunOutOfWork(timerQueue, readyQueue)
    /\ stopped' = TRUE
    /\ pc' = "aw_reset"
    /\ ret' = NoRet
    /\ UNCHANGED <<life, once, now, watch, expiry, timerQueue, readyQueue, hist,
                   early, regEarly, preCancel, armed>>

(* _ioContext->reset(), and AsyncWait returns. *)
AsyncWaitReset ==
    /\ pc = "aw_reset"
    /\ stopped' = IoContextReset(stopped)
    /\ pc' = "idle"
    /\ ret' = Returned("AsyncWait", "owner", 0, Len(timerQueue))
    /\ UNCHANGED <<life, once, now, watch, expiry, timerQueue, readyQueue, hist,
                   early, regEarly, preCancel, armed>>

(***************************************************************************)
(* Specifications.                                                         *)
(***************************************************************************)
OwnerNext ==
    \/ Start
    \/ Stop
    \/ GetElapsedSeconds
    \/ GetElapsedMilliseconds
    \/ GetElapsedNanoseconds
    \/ \E ft \in FileTimes : ExpiresAt(ft)
    \/ \E ms \in Durations : ExpiresFromNow(ms)
    \/ WaitBegin
    \/ WaitReturn
    \/ Cancel("owner")
    \/ CancelOne("owner")
    \/ \E ms \in Durations : AsyncWaitArm(ms)
    \/ AsyncWaitRegister
    \/ RunPoll
    \/ RunDispatch
    \/ HandlerReturn
    \/ RunReturn
    \/ AsyncWaitReset

(* Both threads. *)
Next ==
    \/ Tick
    \/ OwnerNext
    \/ Cancel("other")
    \/ CancelOne("other")

Spec == Init /\ [][Next]_vars

(* The owner alone. *)
NextSingle ==
    \/ Tick
    \/ OwnerNext

SpecSingle == Init /\ [][NextSingle]_vars

(* The stopwatch alone, on a clock that visits the unit boundaries. *)
NextWatch ==
    \/ TickFine
    \/ Start
    \/ Stop
    \/ GetElapsedSeconds
    \/ GetElapsedMilliseconds
    \/ GetElapsedNanoseconds

SpecWatch == Init /\ [][NextWatch]_vars

(* The owner's deadline, wait and cancel operations, without the stopwatch. *)
TimerNext ==
    \/ \E ft \in FileTimes : ExpiresAt(ft)
    \/ \E ms \in Durations : ExpiresFromNow(ms)
    \/ WaitBegin
    \/ WaitReturn
    \/ Cancel("owner")
    \/ CancelOne("owner")
    \/ \E ms \in Durations : AsyncWaitArm(ms)
    \/ AsyncWaitRegister
    \/ RunPoll
    \/ RunDispatch
    \/ HandlerReturn
    \/ RunReturn
    \/ AsyncWaitReset

(* The owner, and another thread that re-arms the timer. *)
NextRearm ==
    \/ Tick
    \/ TimerNext
    \/ \E ms \in Durations : ExpiresFromNowOther(ms)

SpecRearm == Init /\ [][NextRearm]_vars

(* The statements of AsyncWait after the first, the handler's return among *)
(* them.                                                                   *)
AsyncWaitStep ==
    \/ AsyncWaitRegister
    \/ RunPoll
    \/ RunDispatch
    \/ HandlerReturn
    \/ RunReturn
    \/ AsyncWaitReset

(* AsyncWait calls by the owner, cancels by both threads. *)
NextAsync ==
    \/ Tick
    \/ \E ms \in Durations : AsyncWaitArm(ms)
    \/ AsyncWaitStep
    \/ Cancel("owner")
    \/ CancelOne("owner")
    \/ Cancel("other")
    \/ CancelOne("other")

(* The clock keeps advancing, the owner thread keeps executing, and the    *)
(* handler returns.                                                        *)
SpecAsyncFair ==
    /\ Init
    /\ [][NextAsync]_vars
    /\ WF_vars(Tick)
    /\ WF_vars(AsyncWaitStep)

(* AsyncWait calls by the owner, during each of which the other thread     *)
(* cancels at most once.                                                   *)
NextOnce ==
    \/ Tick
    \/ \E ms \in Durations : AsyncWaitArm(ms)
    \/ AsyncWaitStep
    \/ CancelOnce
    \/ CancelOneOnce

SpecOnceFair ==
    /\ Init
    /\ [][NextOnce]_vars
    /\ WF_vars(Tick)
    /\ WF_vars(AsyncWaitStep)

(***************************************************************************)
(* Teardown: ~SteadyTimer() calls !SteadyTimer(), which the runtime may     *)
(* also run on its own.                                                    *)
(***************************************************************************)
(* Variant: the reactor is deleted before the timer bound to it. *)
FinalizerOrderReversed == <<"ioContext", "timer">>

(* The order in which !SteadyTimer() goes through the two pointers. *)
FinalizerOrder == <<"timer", "ioContext">>

(* Variant: the pointer is left as it was after the delete. *)
DeleteKeepsPointer(p) == [deleted |-> p # "null", ptr |-> p]

(* if (p != nullptr) { delete p; p = nullptr; } *)
DeleteAndNull(p) == [deleted |-> p # "null", ptr |-> "null"]

TeardownBegin ==
    /\ pc = "idle"
    /\ teardowns < MaxTeardowns
    /\ teardowns' = teardowns + 1
    /\ pc' = "fin1"
    /\ ret' = NoRet
    /\ armed' = NoArm
    /\ early' = FALSE
    /\ regEarly' = FALSE
    /\ preCancel' = -1
    /\ UNCHANGED <<_timer, _ioContext, released, once, now, watch, timer, hist>>

Destructor == TeardownBegin

Finalizer == TeardownBegin

(* The i-th of the two guarded deletes.  Deleting the timer cancels the    *)
(* waits registered on it; deleting the reactor discards what is queued.   *)
FinalizeStep(i) ==
    LET target == FinalizerOrder[i]
        d == DeleteAndNull(IF target = "timer" THEN _timer ELSE _ioContext)
    IN
    /\ pc = (IF i = 1 THEN "fin1" ELSE "fin2")
    /\ pc' = (IF i = 1 THEN "fin2" ELSE "idle")
    /\ IF target = "timer"
       THEN /\ _timer' = d.ptr
            /\ timerQueue' = (IF d.deleted THEN <<>> ELSE timerQueue)
            /\ readyQueue' = (IF d.deleted
                              THEN readyQueue \o Complete(timerQueue, "aborted")
                              ELSE readyQueue)
            /\ UNCHANGED _ioContext
       ELSE /\ _ioContext' = d.ptr
            /\ readyQueue' = (IF d.deleted THEN <<>> ELSE readyQueue)
            /\ UNCHANGED <<_timer, timerQueue>>
    /\ released' = (IF d.deleted THEN Append(released, target) ELSE released)
    /\ ret' = (IF i = 1 THEN NoRet ELSE Returned("!SteadyTimer", "owner", 0, 0))
    /\ UNCHANGED <<teardowns, once, now, watch, expiry, stopped, hist,
                   early, regEarly, preCancel, armed>>

(* An operation that goes through _timer after the teardown. *)
NullDereference ==
    /\ pc = "idle"
    /\ ~TimerAlive
    /\ pc' = "fault"
    /\ ret' = NoRet
    /\ UNCHANGED <<life, once, now, watch, timer, hist,
                   early, regEarly, preCancel, armed>>

(* The owner alone, from construction to teardown. *)
NextLife ==
    \/ NextSingle
    \/ Destructor
    \/ Finalizer
    \/ FinalizeStep(1)
    \/ FinalizeStep(2)
    \/ NullDereference

SpecLife == Init /\ [][NextLife]_vars

(***************************************************************************)
(* Properties.                                                             *)
(***************************************************************************)
OneToN(n) == [i \in 1..n |-> i]
AsyncWaitReturned == ret.op = "AsyncWait"

(* C1 as stated: the handler of an AsyncWait call runs exactly once when    *)
(* its wait is not cancelled, never more than once, and not at all when     *)
(* Cancel or CancelOne was invoked during the call before the deadline      *)
(* elapsed.                                                                 *)
C1_HandlerOnceOrCancelled_AsStated ==
    /\ \A c \in 1..calls : Count(fired, c) <= 1
    /\ AsyncWaitReturned /\ calls \notin hit => Count(fired, calls) = 1
    /\ AsyncWaitReturned /\ early => Count(fired, calls) = 0

(* C1 amended: as above, but the handler is only known not to run when the  *)
(* cancel was invoked after the wait had been registered (async_wait done)  *)
(* and before the deadline elapsed; a cancel that falls between arming and  *)
(* registration finds nothing to cancel.                                    *)
C1_HandlerOnceOrCancelled ==
    /\ \A c \in 1..calls : Count(fired, c) <= 1
    /\ AsyncWaitReturned /\ calls \notin hit => Count(fired, calls) = 1
    /\ AsyncWaitReturned /\ regEarly => Count(fired, calls) = 0

C1_Witness ==
    /\ AsyncWaitReturned
    /\ calls = 2
    /\ fired = <<1>>
    /\ regEarly
    /\ hit = {2}

(* C2: AsyncWait calls issued one after the other and never cancelled each  *)
(* run their handler exactly once, in the order of the calls, and no call   *)
(* returns before its handler has run.                                      *)
C2_SequentialCallsFireInOrder ==
    hit = {} =>
        /\ fired \in {OneToN(calls), OneToN(calls - 1)}
        /\ pc \in {"idle", "wait", "aw_reset", "aw_handler"} => fired = OneToN(calls)

C2_Witness ==
    /\ AsyncWaitReturned
    /\ calls = 2
    /\ hit = {}
    /\ fired = <<1, 2>>

(* C3: Cancel() called while no asynchronous wait is pending (the owner is   *)
(* between operations: freshly constructed, armed only by ExpiresFromNow or *)
(* ExpiresAt, after an AsyncWait returned, after an earlier Cancel) returns *)
(* 0 and invokes no handler.                                                *)
C3_CancelNothingPending ==
    [][ret'.op = "Cancel" /\ (pc = "idle" \/ timerQueue = <<>>)
         => /\ ret'.val = 0
            /\ fired' = fired
            /\ readyQueue' = readyQueue
            /\ hit' = hit]_vars

C3_Witness ==
    /\ ret.op = "Cancel"
    /\ ret.pend = 0
    /\ ret.val = 0
    /\ pc = "idle"
    /\ fired = <<1>>
    /\ expiry > now

(* C4: Cancel() called while exactly one asynchronous wait is pending       *)
(* returns 1, the handler of that wait is never invoked, and the cancelled  *)
(* completion is still executed by run(), so that the AsyncWait which       *)
(* registered it goes on to return.                                         *)
C4_CancelOnePending ==
    /\ ret.op = "Cancel" /\ ret.pend = 1 => ret.val = 1 /\ calls \in hit
    /\ \A c \in hit : c \notin Range(fired)
    /\ calls \in hit /\ pc \in {"aw_run", "aw_reset"} =>
           /\ timerQueue = <<>>
           /\ ENABLED (RunDispatch \/ RunReturn \/ AsyncWaitReset)
    /\ calls \in hit /\ pc = "aw_reset" => calls \notin Ids(readyQueue)

C4_Witness ==
    /\ ret.op = "Cancel"
    /\ ret.pend = 1
    /\ ret.val = 1
    /\ pc = "aw_run"
    /\ readyQueue = <<[id |-> calls, ec |-> "aborted"]>>

(* C5 as stated: with the owner alone, a Cancel() called right before       *)
(* AsyncWait returns 1 and keeps the handler of that AsyncWait from running.*)
C5_CancelBeforeAsyncWait_AsStated ==
    AsyncWaitReturned /\ preCancel # -1 =>
        preCancel = 1 /\ Count(fired, calls) = 0

(* C5 amended: with the owner alone, a Cancel() called right before         *)
(* AsyncWait finds no pending wait: it returns 0, and the handler of that   *)
(* AsyncWait still runs exactly once.                                       *)
C5_CancelBeforeAsyncWait ==
    AsyncWaitReturned /\ preCancel # -1 =>
        preCancel = 0 /\ Count(fired, calls) = 1

C5_Witness ==
    /\ AsyncWaitReturned
    /\ preCancel = 0
    /\ calls \in Range(fired)
    /\ expiry = now
    /\ now > 0

(* C6: for d >= 0, ExpiresFromNow(d) followed by Wait() does not return     *)
(* before the clock has advanced by d milliseconds from the instant of the  *)
(* ExpiresFromNow call.                                                     *)
C6_WaitNotBeforeDeadline ==
    ret.op = "Wait" /\ armed # NoArm /\ armed.d >= 0 =>
        now >= armed.at + armed.d * NsPerMs

C6_Witness ==
    /\ ret.op = "Wait"
    /\ armed # NoArm
    /\ armed.d > 0
    /\ now = armed.at + armed.d * NsPerMs

(* C7: after Start() at t0 and Stop() at t1 >= t0 the three queries return  *)
(* t1 - t0 truncated to seconds, to milliseconds, and in nanoseconds.       *)
C7_ElapsedIsFloor ==
    t0 >= 0 /\ t1 >= t0 =>
        /\ ElapsedMilliseconds(_startTime, _stopTime) = (t1 - t0) \div NsPerMs
        /\ ElapsedSeconds(_startTime, _stopTime) = (t1 - t0) \div NsPerSec
        /\ ElapsedNanoseconds(_startTime, _stopTime) = t1 - t0
        /\ ret.op = "GetElapsedMilliseconds" =>
               /\ ret.val * NsPerMs <= t1 - t0
               /\ t1 - t0 < (ret.val + 1) * NsPerMs
        /\ ret.op = "GetElapsedSeconds" => ret.val = (t1 - t0) \div NsPerSec
        /\ ret.op = "GetElapsedNanoseconds" => ret.val = t1 - t0

C7_Witness ==
    /\ ret.op = "GetElapsedMilliseconds"
    /\ t0 = 0
    /\ t1 = 2 * NsPerMs - 1
    /\ ret.val = 1

(* C8: _startTime changes only in Start() and _stopTime only in Stop(); no  *)
(* other operation changes what the three queries return.                   *)
C8_OnlyStartStopWrite ==
    [][/\ _startTime' # _startTime => ret'.op = "Start"
       /\ _stopTime' # _stopTime => ret'.op = "Stop"
       /\ ret'.op \notin {"Start", "Stop"} =>
              /\ ElapsedSeconds(_startTime', _stopTime')
                     = ElapsedSeconds(_startTime, _stopTime)
              /\ ElapsedMilliseconds(_startTime', _stopTime')
                     = ElapsedMilliseconds(_startTime, _stopTime)
              /\ ElapsedNanoseconds(_startTime', _stopTime')
                     = ElapsedNanoseconds(_startTime, _stopTime)]_vars

C8_Witness ==
    /\ AsyncWaitReturned
    /\ _startTime = 0
    /\ _stopTime = NsPerMs - 1
    /\ t1 = _stopTime
    /\ t1 < expiry
    /\ now >= expiry
    /\ fired # <<>>

(* C9: a handler is invoked only by the run() of the AsyncWait call it was  *)
(* passed to, on the owner thread, never by another operation and never    *)
(* after that call returned; an AsyncWait whose wait was not cancelled does *)
(* not return before its handler has run.                                   *)
C9_HandlerInsideItsCall ==
    /\ [][fired' # fired =>
              /\ pc = "aw_run"
              /\ pc' = "aw_handler"
              /\ fired' = Append(fired, calls)
              /\ ret'.op = "none"]_vars
    /\ [](pc \in {"idle", "wait", "aw_reset"} /\ calls > 0 /\ calls \notin hit
              => calls \in Range(fired))

C9_Witness ==
    /\ pc = "aw_handler"
    /\ calls = 2
    /\ fired = <<1, 2>>
    /\ ret.op = "Cancel"

(* C10: with at most one wait pending, CancelOne() and Cancel() return the  *)
(* same count, 0 or 1, and leave the timer and the reactor in the same      *)
(* state, the cancelled handler being skipped either way.                   *)
C10_CancelOneIsCancel ==
    /\ Len(timerQueue) <= 1
    /\ TimerCancelOne(timerQueue) = TimerCancel(timerQueue)
    /\ TimerCancel(timerQueue).n \in {0, 1}
    /\ ret.op \in {"Cancel", "CancelOne"} =>
           /\ ret.val = ret.pend
           /\ ret.val \in {0, 1}
    /\ \A c \in hit : c \notin Range(fired)

C10_Witness ==
    /\ ret.op = "CancelOne"
    /\ ret.val = 1
    /\ pc = "aw_run"
    /\ readyQueue = <<[id |-> calls, ec |-> "aborted"]>>

(* C11: teardown deletes the deadline timer first and the reactor second:   *)
(* whenever the reactor is gone the timer is gone too, the deletes happen   *)
(* in that order, and after a teardown both are gone.                       *)
C11_TimerReleasedBeforeReactor ==
    /\ ~ContextAlive => ~TimerAlive
    /\ \E k \in 0..2 : released = SubSeq(<<"timer", "ioContext">>, 1, k)
    /\ TimerAlive <=> "timer" \notin Range(released)
    /\ ContextAlive <=> "ioContext" \notin Range(released)
    /\ teardowns > 0 /\ pc \in {"idle", "fault"} =>
           released = <<"timer", "ioContext">>

C11_Witness ==
    /\ pc = "fin2"
    /\ ~TimerAlive
    /\ ContextAlive
    /\ released = <<"timer">>
    /\ fired # <<>>

(* C17: teardown is idempotent: however often the destructor and the        *)
(* finalizer run, the timer and the reactor are each deleted exactly once,  *)
(* and a later run finds both pointers null and deletes nothing.            *)
C17_TeardownIdempotent ==
    /\ Count(released, "timer") <= 1
    /\ Count(released, "ioContext") <= 1
    /\ teardowns > 0 /\ pc \in {"idle", "fault"} =>
           /\ Count(released, "timer") = 1
           /\ Count(released, "ioContext") = 1
           /\ ~TimerAlive
           /\ ~ContextAlive
    /\ teardowns > 1 /\ pc \in {"fin1", "fin2"} =>
           /\ Len(released) = 2
           /\ ~TimerAlive
           /\ ~ContextAlive

C17_Witness ==
    /\ teardowns = 2
    /\ ret.op = "!SteadyTimer"
    /\ released = <<"timer", "ioContext">>
    /\ ~TimerAlive
    /\ ~ContextAlive

Cancels == {"Cancel", "CancelOne"}
(* Another thread has just cancelled while the owner is blocked in Wait(). *)
CancelledWhileWaiting ==
    pc = "wait" /\ ret.op \in Cancels /\ ret.by = "other"

(* C12 as stated: a Wait() blocked on an armed deadline can return once the *)
(* deadline has elapsed and also once another thread has cancelled the      *)
(* timer, reports no error, and leaves the reactor untouched.               *)
C12_WaitEndsOnExpiryOrCancel_AsStated ==
    /\ [](pc = "wait" /\ (now >= expiry \/ CancelledWhileWaiting)
              => ENABLED WaitReturn)
    /\ [](ret.op = "Wait" => ret.val = 0)
    /\ [][pc = "wait" \/ pc' = "wait"
              => UNCHANGED <<timerQueue, readyQueue, stopped, fired, hit>>]_vars

(* C12 amended: a Wait() blocked on an armed deadline returns when, and     *)
(* only when, that deadline has elapsed; a Cancel() or CancelOne() from     *)
(* another thread meanwhile returns 0 and does not end the wait; Wait()     *)
(* reports no error and leaves the reactor untouched.                       *)
C12_WaitEndsOnExpiryOnly ==
    /\ [](pc = "wait" => (ENABLED WaitReturn <=> now >= expiry))
    /\ [](CancelledWhileWaiting => ret.val = 0)
    /\ [](ret.op = "Wait" => ret.val = 0 /\ now >= expiry)
    /\ [][pc = "wait" \/ pc' = "wait"
              => UNCHANGED <<timerQueue, readyQueue, stopped, fired, hit>>]_vars

C12_Witness ==
    /\ CancelledWhileWaiting
    /\ ret.val = 0
    /\ now < expiry
    /\ expiry <= MaxNow

(* A step that sets the expiry: ExpiresAt, ExpiresFromNow, or the first     *)
(* statement of AsyncWait.                                                  *)
Rearms ==
    \/ ret'.op \in {"ExpiresAt", "ExpiresFromNow"}
    \/ pc = "idle" /\ pc' = "aw_armed"

(* C13: setting the expiry again replaces the deadline: the expiry in force *)
(* is the one of the latest call, and a wait still registered for the       *)
(* earlier deadline is cancelled by the call, its handler never invoked.    *)
C13_RearmReplacesDeadline ==
    /\ [](armed # NoArm => expiry = armed.at + armed.d * NsPerMs)
    /\ [](ret.op = "Wait" => now >= expiry)
    /\ [](\A c \in hit : c \notin Range(fired))
    /\ [][Rearms =>
              /\ timerQueue' = <<>>
              /\ Range(timerQueue) \subseteq hit'
              /\ readyQueue' = readyQueue \o Complete(timerQueue, "aborted")]_vars

C13_Witness ==
    /\ ret.op = "ExpiresFromNow"
    /\ ret.by = "other"
    /\ ret.pend = 1
    /\ pc = "aw_run"
    /\ hit = {calls}
    /\ readyQueue = <<[id |-> calls, ec |-> "aborted"]>>
    /\ expiry = armed.at + armed.d * NsPerMs

(* C14 as stated: once the owner's Cancel() or CancelOne() has returned, the *)
(* deadline set before it is no longer in force, so that a Wait() entered    *)
(* next does not block on it.                                                *)
C14_CancelDisarms_AsStated ==
    (ret.op \in Cancels /\ ret.by = "owner" /\ pc = "idle") => ~WaitBlocks(now, expiry)

(* C14: Cancel() and CancelOne() complete registered asynchronous waits     *)
(* only: they leave the expiry and the owner's position as they were, a     *)
(* Wait() entered after them starts from that same expiry, and a Wait()     *)
(* stays blocked exactly as long as the expiry is in the future.            *)
C14_CancelKeepsDeadline ==
    /\ [][ret'.op \in Cancels => expiry' = expiry /\ pc' = pc]_vars
    /\ [][ret.op \in Cancels /\ pc' = "wait" => expiry' = expiry]_vars
    /\ [](pc = "wait" => (ENABLED WaitReturn <=> ~(now < expiry)))

C14_Witness ==
    /\ ret.op \in Cancels
    /\ ret.by = "owner"
    /\ ret.val = 0
    /\ pc = "idle"
    /\ now < expiry
    /\ ENABLED WaitBegin

(* C15: the reactor is not stopped when AsyncWait enters run() nor while    *)
(* run() is processing: between public calls (and up to the registration)   *)
(* it is not stopped and has no registered wait and no queued completion,   *)
(* run() returns only after the completion registered by its own call was   *)
(* processed, as fired or as cancelled, and the reset() that follows leaves *)
(* the reactor not stopped.                                                 *)
C15_ReactorReadyForNextRun ==
    /\ [](pc \in {"idle", "wait", "aw_armed"} =>
              ~stopped /\ timerQueue = <<>> /\ readyQueue = <<>>)
    /\ [](pc \in {"aw_run", "aw_handler"} => ~stopped)
    /\ [][pc = "aw_armed" /\ pc' = "aw_run" =>
              ~stopped' /\ ~RunOutOfWork(timerQueue', readyQueue')]_vars
    /\ [][pc = "aw_run" /\ pc' = "aw_reset" =>
              calls \in Range(fired) \cup hit]_vars
    /\ [][pc = "aw_reset" /\ pc' = "idle" => stopped /\ ~stopped']_vars

C15_Witness ==
    /\ pc = "aw_run"
    /\ calls = 2
    /\ fired = <<1>>
    /\ timerQueue = <<2>>
    /\ ~stopped
    /\ ENABLED RunPoll
    /\ ~ENABLED RunReturn

InAsyncWait == pc \in {"aw_armed", "aw_run", "aw_handler", "aw_reset"}

(* C16: every AsyncWait call returns, whatever its duration: a registered   *)
(* wait whose expiry is not in the future can be completed at once, without *)
(* the clock advancing, and at the return the completion of the call has    *)
(* been processed, as fired or as cancelled, and no work is left.           *)
C16_AsyncWaitReturns ==
    /\ InAsyncWait ~> AsyncWaitReturned
    /\ [](pc = "aw_run" /\ timerQueue # <<>> /\ expiry <= now => ENABLED RunPoll)
    /\ [](AsyncWaitReturned =>
              /\ timerQueue = <<>>
              /\ readyQueue = <<>>
              /\ calls \in Range(fired) \cup hit)

C16_Witness ==
    /\ AsyncWaitReturned
    /\ now = 0
    /\ expiry < now
    /\ calls = 1
    /\ fired = <<1>>
    /\ timerQueue = <<>>
    /\ readyQueue = <<>>

(* C18: with the owner as the only thread, no asynchronous wait is          *)
(* registered wherever a public operation can be entered (between calls     *)
(* and inside the handler) nor when AsyncWait returns; every Cancel() and   *)
(* CancelOne() finds nothing registered and returns 0, no wait is ever      *)
(* cancelled, and every AsyncWait call has invoked its handler once when    *)
(* it returns.                                                              *)
C18_NothingPendingAtCallSites ==
    /\ AtCallSite => timerQueue = <<>>
    /\ pc \in {"wait", "aw_armed", "aw_reset"} => timerQueue = <<>>
    /\ ret.op \in Cancels => ret.val = 0 /\ ret.pend = 0
    /\ hit = {}
    /\ AsyncWaitReturned => Count(fired, calls) = 1
    /\ pc = "idle" => fired = OneToN(calls)

C18_Witness ==
    /\ pc = "aw_handler"
    /\ ret.op = "CancelOne"
    /\ ret.by = "owner"
    /\ ret.val = 0
    /\ calls = 1
    /\ fired = <<1>>
    /\ timerQueue = <<>>

CancelledOnce == once.call = calls /\ calls > 0

(* C19: when the other thread cancels once during an AsyncWait call, the    *)
(* cancel returns 1 and the handler of the call is never invoked, or it     *)
(* returns 0, having been issued before the registration or once the        *)
(* deadline was reached, and the handler is invoked exactly once; a         *)
(* returned 1 never comes with an invoked handler, and the call returns.    *)
C19_CancelOnceDecides ==
    /\ [](CancelledOnce => once.val \in {0, 1})
    /\ [](CancelledOnce /\ once.val = 1 => Count(fired, calls) = 0)
    /\ [](CancelledOnce /\ once.val = 0 => once.at = "aw_armed" \/ once.due)
    /\ [](CancelledOnce /\ AsyncWaitReturned =>
              \/ once.val = 1 /\ Count(fired, calls) = 0
              \/ once.val = 0 /\ Count(fired, calls) = 1)
    /\ (InAsyncWait /\ CancelledOnce) ~> (AsyncWaitReturned /\ CancelledOnce)

C19_Witness ==
    /\ AsyncWaitReturned
    /\ calls = 2
    /\ once = [call |-> 2, val |-> 1, at |-> "aw_run", due |-> FALSE]
    /\ fired = <<1>>
    /\ hit = {2}

====
